---------------------------- MODULE Spec2Model ----------------------------
(***************************************************************************)
(* Dyslexia screening core of Mugiwara: the word alignment scorer          *)
(* (compare.py) and the level progression state machine in its             *)
(* orchestrations: the compiled LangGraph graphs (Langgraph/graph_builder, *)
(* Langgraph/graph + graph_nodes), the single-level procedural workflow    *)
(* and the full procedural workflow (workflow.py + nodes.py).  Spec is the *)
(* state machine; ScorerSpec is the scoring step alone, on wider inputs.   *)
(*                                                                         *)
(* Conventions.  A text is a sequence of one-character strings; a word is  *)
(* a non-empty text without blanks.  Python's None is NoWord for a word,   *)
(* NoTime for a timestamp bound, NoLevel for next_level and "null" for     *)
(* final_result.  Accuracies are kept in hundredths of a percent (what     *)
(* round(x, 2) keeps), confidences in hundredths.                          *)
(***************************************************************************)
EXTENDS Integers, Sequences, FiniteSets, TLC

(***************************************************************************)
(* Python values                                                           *)
(***************************************************************************)
NoWord == <<>>
NoTime == -1
NoLevel == 0

Min2(a, b) == IF a <= b THEN a ELSE b
Max2(a, b) == IF a >= b THEN a ELSE b
Abs(a) == IF a >= 0 THEN a ELSE 0 - a

\* str.lower() on one character, for the capitals the inputs use
Lower(c) ==
  CASE c = "T" -> "t"
    [] c = "R" -> "r"
    [] c = "B" -> "b"
    [] OTHER -> c

LowerWord(w) == [k \in 1..Len(w) |-> Lower(w[k])]

\* str.strip().split(): the maximal blank-free runs of the text, in order
RECURSIVE SplitFrom(_, _, _, _)
SplitFrom(text, k, cur, acc) ==
  IF k > Len(text)
    THEN (IF cur = <<>> THEN acc ELSE Append(acc, cur))
    ELSE IF text[k] = " "
      THEN SplitFrom(text, k + 1, <<>>, IF cur = <<>> THEN acc ELSE Append(acc, cur))
      ELSE SplitFrom(text, k + 1, Append(cur, text[k]), acc)

Split(text) == SplitFrom(text, 1, <<>>, <<>>)

\* " ".join(words): how the inputs below are written down
RECURSIVE Join(_)
Join(words) ==
  IF words = <<>> THEN <<>>
  ELSE IF Len(words) = 1 THEN words[1]
  ELSE words[1] \o <<" ">> \o Join(Tail(words))

(***************************************************************************)
(* compare.py: Levenshtein.distance of rapidfuzz on two words, computed    *)
(* row by row (unit costs, exact character equality)                       *)
(***************************************************************************)
RECURSIVE LevRow(_, _, _, _)
\* row i of the table from row i-1 (prev); rows are indexed 1..Len(b)+1
LevRow(prev, ch, b, acc) ==
  LET j == Len(acc) IN
  IF j > Len(b) THEN acc
  ELSE LET cost == IF ch = b[j] THEN 0 ELSE 1
           v == Min2(prev[j] + cost, Min2(prev[j + 1] + 1, acc[j] + 1))
       IN LevRow(prev, ch, b, Append(acc, v))

RECURSIVE LevRows(_, _, _, _)
LevRows(a, b, i, prev) ==
  IF i > Len(a) THEN prev
  ELSE LevRows(a, b, i + 1, LevRow(prev, a[i], b, <<i>>))

LevenshteinDistance(a, b) ==
  LevRows(a, b, 1, [j \in 1..(Len(b) + 1) |-> j - 1])[Len(b) + 1]

\* mutant: the threshold taken as exclusive
SimilarityThresholdMet_Strict(dist, max_len) == 10 * (max_len - dist) > 6 * max_len

\* similarity >= 0.6, with similarity = 1 - dist / max_len
SimilarityThresholdMet(dist, max_len) == 10 * (max_len - dist) >= 6 * max_len

\* abs(len(a) - len(b)) >= 3
BigLengthDifference(a, b) == Abs(Len(a) - Len(b)) >= 3

is_likely_mispronunciation(a0, b0) ==
  LET a == LowerWord(a0)
      b == LowerWord(b0)
  IN IF a = b THEN FALSE
     ELSE IF BigLengthDifference(a, b) THEN FALSE
     ELSE SimilarityThresholdMet(LevenshteinDistance(a, b), Max2(Len(a), Len(b)))

(***************************************************************************)
(* compare.py: compare_text                                                *)
(***************************************************************************)
\* trans_ts: the timestamp of position i when its word is the i-th token
NoTs == [word |-> NoWord, start |-> NoTime, end |-> NoTime]

\* mutant: the timestamp's word is matched up to case
TransTs_IgnoreCase(trans_words, timestamps) ==
  [i \in 1..Len(trans_words) |->
     IF i <= Len(timestamps)
        /\ LowerWord(timestamps[i].word) = LowerWord(trans_words[i])
       THEN timestamps[i] ELSE NoTs]

TransTs(trans_words, timestamps) ==
  [i \in 1..Len(trans_words) |->
     IF i <= Len(timestamps) /\ timestamps[i].word = trans_words[i]
       THEN timestamps[i] ELSE NoTs]

\* mutant: the words are compared as written
WordCost_CaseSensitive(t, s) == IF t = s THEN 0 ELSE 1

\* mutant: a mismatch costs 2
WordCost_Double(t, s) == IF LowerWord(t) = LowerWord(s) THEN 0 ELSE 2

\* the match predicate of the word table
WordCost(t, s) == IF LowerWord(t) = LowerWord(s) THEN 0 ELSE 1

\* mutant: the insertion is left out of the minimum
RECURSIVE DpRow_NoInsertion(_, _, _, _)
DpRow_NoInsertion(prev, tw, trans_words, acc) ==
  LET j == Len(acc) IN
  IF j > Len(trans_words) THEN acc
  ELSE LET sub_cost == prev[j] + WordCost(tw, trans_words[j])
           del_cost == prev[j + 1] + 1
       IN DpRow_NoInsertion(prev, tw, trans_words,
                            Append(acc, Min2(sub_cost, del_cost)))

\* one row of dp: dp[i][0..m] from dp[i-1][0..m]; index j+1 holds column j
RECURSIVE DpRow(_, _, _, _)
DpRow(prev, tw, trans_words, acc) ==
  LET j == Len(acc) IN
  IF j > Len(trans_words) THEN acc
  ELSE LET sub_cost == prev[j] + WordCost(tw, trans_words[j])
           del_cost == prev[j + 1] + 1
           ins_cost == acc[j] + 1
       IN DpRow(prev, tw, trans_words,
                Append(acc, Min2(sub_cost, Min2(del_cost, ins_cost))))

\* the whole table: index i+1 holds row i
RECURSIVE DpRows(_, _, _)
DpRows(target_words, trans_words, rows) ==
  LET i == Len(rows) IN
  IF i > Len(target_words) THEN rows
  ELSE DpRows(target_words, trans_words,
              Append(rows, DpRow(rows[i], target_words[i], trans_words, <<i>>)))

DpTable(target_words, trans_words) ==
  DpRows(target_words, trans_words,
         << [j \in 1..(Len(trans_words) + 1) |-> j - 1] >>)

\* mutant: the deletion is looked at before the diagonal
TieBreak_DeletionFirst(best, sub_cost, del_cost, cost) ==
  IF best = del_cost THEN "deletion"
  ELSE IF best = sub_cost THEN (IF cost = 0 THEN "correct" ELSE "substitution")
  ELSE "insertion"

\* the operation recorded at a cell: diagonal first, then deletion, then insertion
TieBreak(best, sub_cost, del_cost, cost) ==
  IF best = sub_cost THEN (IF cost = 0 THEN "correct" ELSE "substitution")
  ELSE IF best = del_cost THEN "deletion"
  ELSE "insertion"

\* back[i][j]
Back(dp, target_words, trans_words, i, j) ==
  IF i = 0 /\ j = 0 THEN "none"
  ELSE IF j = 0 THEN "deletion"
  ELSE IF i = 0 THEN "insertion"
  ELSE LET cost == WordCost(target_words[i], trans_words[j])
       IN TieBreak(dp[i + 1][j + 1], dp[i][j] + cost, dp[i][j + 1] + 1, cost)

\* the backtrack from (i, j); the steps come out last first, as the code appends them
RECURSIVE Backtrack(_, _, _, _, _, _)
Backtrack(dp, target_words, trans_words, trans_ts, i, j) ==
  IF ~(i > 0 \/ j > 0) THEN <<>>
  ELSE
    LET op == Back(dp, target_words, trans_words, i, j) IN
    IF op \in {"correct", "substitution"}
      THEN << [op |-> op, target_word |-> target_words[i],
               spoken_word |-> trans_words[j],
               start |-> trans_ts[j].start, end |-> trans_ts[j].end] >>
           \o Backtrack(dp, target_words, trans_words, trans_ts, i - 1, j - 1)
    ELSE IF op = "deletion"
      THEN << [op |-> "deletion", target_word |-> target_words[i],
               spoken_word |-> NoWord, start |-> NoTime, end |-> NoTime] >>
           \o Backtrack(dp, target_words, trans_words, trans_ts, i - 1, j)
    ELSE << [op |-> "insertion", target_word |-> NoWord,
             spoken_word |-> trans_words[j],
             start |-> trans_ts[j].start, end |-> trans_ts[j].end] >>
         \o Backtrack(dp, target_words, trans_words, trans_ts, i, j - 1)

\* list.reverse()
Reverse(s) == [k \in 1..Len(s) |-> s[Len(s) + 1 - k]]

\* the three labels of one alignment step
WordStatusOf(step) ==
  IF step.op = "correct"
    THEN [target_word |-> step.target_word, spoken_word |-> step.spoken_word,
          label |-> "correct", confidence |-> 100, reason |-> "Exact match",
          start |-> step.start, end |-> step.end]
  ELSE IF step.op = "substitution"
    THEN LET same == LowerWord(step.target_word) = LowerWord(step.spoken_word)
             mis == is_likely_mispronunciation(step.target_word, step.spoken_word)
         IN [target_word |-> step.target_word, spoken_word |-> step.spoken_word,
             label |-> IF same THEN "correct"
                       ELSE IF mis THEN "mispronunciation" ELSE "error",
             confidence |-> IF same THEN 100 ELSE IF mis THEN 70 ELSE 90,
             reason |-> IF same THEN "Exact match"
                        ELSE IF mis THEN "High similarity (edit-distance based)"
                        ELSE "Too different from expected word",
             start |-> step.start, end |-> step.end]
  ELSE [target_word |-> step.target_word, spoken_word |-> step.spoken_word,
        label |-> "error", confidence |-> 90,
        reason |-> IF step.op = "deletion" THEN "deletion detected"
                   ELSE "insertion detected",
        start |-> step.start, end |-> step.end]

Alignment(target_words, trans_words, timestamps) ==
  Reverse(Backtrack(DpTable(target_words, trans_words), target_words, trans_words,
                    TransTs(trans_words, timestamps),
                    Len(target_words), Len(trans_words)))

compare_text(data) ==
  LET target_words == Split(data.target_text)
      trans_words == Split(data.transcribed_text)
      alignment == Alignment(target_words, trans_words, data.word_timestamps)
  IN [target_text |-> data.target_text,
      transcribed_text |-> data.transcribed_text,
      distance |-> DpTable(target_words, trans_words)
                     [Len(target_words) + 1][Len(trans_words) + 1],
      word_status |-> [k \in 1..Len(alignment) |-> WordStatusOf(alignment[k])]]


(***************************************************************************)
(* graph_nodes.py / nodes.py: scoring of one level                         *)
(***************************************************************************)
\* number of entries of word_status carrying the label
RECURSIVE CountLabel(_, _)
CountLabel(word_status, label) ==
  IF word_status = <<>> THEN 0
  ELSE (IF word_status[1].label = label THEN 1 ELSE 0)
       + CountLabel(Tail(word_status), label)

\* round(num / den, 0) to the nearest integer, ties to even, for num >= 0, den > 0
RoundHalfEven(num, den) ==
  LET q == num \div den
      r == num % den
  IN IF 2 * r > den \/ (2 * r = den /\ q % 2 = 1) THEN q + 1 ELSE q

\* mutant: a mispronunciation counts as much as a correct word
HalfPoints_FullCredit(word_status) ==
  2 * CountLabel(word_status, "correct") + 2 * CountLabel(word_status, "mispronunciation")

\* points in half points: 1.0 per correct, 0.5 per mispronunciation
HalfPoints(word_status) ==
  2 * CountLabel(word_status, "correct") + CountLabel(word_status, "mispronunciation")

\* mutant: the accuracy is cut after two decimals
Accuracy_Truncated(word_status) ==
  LET total == Len(word_status) IN
  IF total = 0 THEN 0
  ELSE (HalfPoints(word_status) * 5000) \div total

\* mutant: nothing to read counts as read perfectly
Accuracy_EmptyIsPerfect(word_status) ==
  LET total == Len(word_status) IN
  IF total = 0 THEN 10000
  ELSE RoundHalfEven(HalfPoints(word_status) * 5000, total)

\* round((points / total) * 100.0, 2), in hundredths of a percent
Accuracy(word_status) ==
  LET total == Len(word_status) IN
  IF total = 0 THEN 0
  ELSE RoundHalfEven(HalfPoints(word_status) * 5000, total)

\* mutant: only the entries labelled error are kept
RECURSIVE extract_negative_errors_ErrorsOnly(_)
extract_negative_errors_ErrorsOnly(word_status) ==
  IF word_status = <<>> THEN <<>>
  ELSE LET w == word_status[1] IN
       (IF w.label = "error"
          THEN << [target |-> w.target_word, spoken |-> w.spoken_word,
                   label |-> w.label, reason |-> w.reason] >>
          ELSE <<>>)
       \o extract_negative_errors_ErrorsOnly(Tail(word_status))

RECURSIVE extract_negative_errors(_)
extract_negative_errors(word_status) ==
  IF word_status = <<>> THEN <<>>
  ELSE LET w == word_status[1] IN
       (IF w.label # "correct"
          THEN << [target |-> w.target_word, spoken |-> w.spoken_word,
                   label |-> w.label, reason |-> w.reason] >>
          ELSE <<>>)
       \o extract_negative_errors(Tail(word_status))

\* the entry written to level_results[level]
LevelResult(target, transcribed, timestamps) ==
  LET result == compare_text([target_text |-> target,
                              transcribed_text |-> transcribed,
                              word_timestamps |-> timestamps])
  IN [target_text |-> target,
      transcribed_text |-> transcribed,
      accuracy |-> Accuracy(result.word_status),
      distance |-> result.distance,
      word_status |-> result.word_status,
      negative_errors |-> extract_negative_errors(result.word_status)]

\* mutant: the dict is replaced by one that holds the new entry only
Put_Replacing(d, k, v) == [x \in {k} |-> v]

\* d[k] = v on a dict
Put(d, k, v) == [x \in (DOMAIN d) \cup {k} |-> IF x = k THEN v ELSE d[x]]

EmptyDict == [x \in {} |-> 0]

(***************************************************************************)
(* The decision rule of the decide step                                    *)
(***************************************************************************)
\* acc >= 40
Passes(acc) == acc >= 4000

\* mutant: level 4 has a next level too
HasNextLevel_UpToFour(level) == level <= 4

\* level < 4
HasNextLevel(level) == level < 4

\* mutant: level 3 may be retested as well
RetestEligible_UpToThree(level) == level \in {1, 2, 3}

\* level in [1, 2]
RetestEligible(level) == level \in {1, 2}

(***************************************************************************)
(* error_reasoner.py and verifier.py: the collaborators' replies           *)
(***************************************************************************)
\* a JSON object without the "confidence" key / with one that is no number
ConfAbsent == -1
ConfNotNumber == -2

\* verdict.get("confidence", 0.0)
GetConfidence(verdict) ==
  IF verdict.confidence = ConfAbsent THEN 0 ELSE verdict.confidence

\* mutant: the threshold taken as exclusive
ConfidenceHigh_Strict(conf) == conf > 60

\* >= 0.6 on a confidence
ConfidenceHigh(conf) == conf >= 60

ReasonerDefault == [object |-> TRUE, suggest_retest |-> "false", confidence |-> 0]

VerifierDefault ==
  [object |-> TRUE, final_result |-> "INCONCLUSIVE", confidence |-> 0]

\* what the function does with the collaborator's reply: returns a value or raises
reason_negative_errors_with_gemini(has_key, reply) ==
  IF ~has_key THEN [raised |-> FALSE, value |-> ReasonerDefault]
  ELSE IF reply.kind = "request_failed" THEN [raised |-> TRUE, value |-> ReasonerDefault]
  ELSE IF reply.kind = "not_json" THEN [raised |-> FALSE, value |-> ReasonerDefault]
  ELSE [raised |-> FALSE, value |-> reply.value]

verify_with_gemini(has_key, reply) ==
  IF ~has_key THEN [raised |-> FALSE, value |-> VerifierDefault]
  ELSE IF reply.kind = "request_failed" THEN [raised |-> TRUE, value |-> VerifierDefault]
  ELSE IF reply.kind = "not_json" THEN [raised |-> FALSE, value |-> VerifierDefault]
  ELSE [raised |-> FALSE, value |-> reply.value]

\* mutant: the confidence of the verdict is not looked at
RetestWarranted_IgnoresConfidence(verdict) ==
  verdict.suggest_retest = "true"

\* verdict.get("suggest_retest") is True and float(verdict.get("confidence", 0.0)) >= 0.6
RetestWarranted(verdict) ==
  verdict.suggest_retest = "true" /\ ConfidenceHigh(GetConfidence(verdict))

\* the same condition raises: the verdict is no dict, or its confidence no number
RetestTestRaises(verdict) ==
  \/ ~verdict.object
  \/ verdict.suggest_retest = "true" /\ verdict.confidence = ConfNotNumber


(***************************************************************************)
(* Bounds and inputs                                                       *)
(***************************************************************************)
\* longest transcript, in words
MaxTranscriptWords == 2

red == <<"r", "e", "d">>
blue == <<"b", "l", "u", "e">>
blu == <<"b", "l", "u">>
green == <<"g", "r", "e", "e", "n">>
yellow == <<"y", "e", "l", "l", "o", "w">>
black == <<"b", "l", "a", "c", "k">>

\* nodes.py: the rapid-naming text of level 3
RanText == Join(<<red, blue, green, yellow, black>>)

\* what the subject may be heard to say
Vocabulary == {red, blue, blu}

SeqsUpTo(S, n) == UNION {[1..k -> S] : k \in 0..n}

TargetTexts == {RanText, Join(<<red, blue>>), <<>>}

TranscriptWords == SeqsUpTo(Vocabulary, MaxTranscriptWords)

\* a timestamp list that names every token at its position
ExactTimestamps(words) ==
  [i \in 1..Len(words) |-> [word |-> words[i], start |-> 10 * i, end |-> 10 * i + 5]]

\* no texts at all: the fields of a request that carries none
EmptyInput ==
  [target_text |-> <<>>, transcribed_text |-> <<>>, word_timestamps |-> <<>>]

\* the scoring inputs of one level: target, transcript, timestamps
Inputs ==
  {[target_text |-> t, transcribed_text |-> Join(w), word_timestamps |-> ts] :
     t \in TargetTexts, w \in TranscriptWords, ts \in {<<>>}}
  \cup
  {[target_text |-> RanText, transcribed_text |-> Join(w),
    word_timestamps |-> ExactTimestamps(w)] : w \in {<<red, blue>>, <<red, blu>>}}

\* what the transcriber hears: a text and its word list
TranscriptionsHeard ==
  {[transcribed_text |-> Join(w), word_timestamps |-> ts] :
     w \in TranscriptWords, ts \in {<<>>}}

\* the level data of a full evaluation: a passing and a failing reading
FullInputs ==
  {[target_text |-> RanText, transcribed_text |-> Join(w), word_timestamps |-> <<>>] :
     w \in {<<red, blue>>, <<red>>}}

\* every (target, transcript, timestamps) a scoring step of the model can meet:
\* the requests' inputs, and the transcriber's output against the empty target
\* of an audio request
ScoredInputs ==
  Inputs \cup FullInputs
  \cup {[target_text |-> <<>>, transcribed_text |-> t.transcribed_text,
         word_timestamps |-> t.word_timestamps] : t \in TranscriptionsHeard}
  \cup {EmptyInput}

\* the scorer is a pure function of its input: its results, computed once
LevelResultTable ==
  {[data |-> d,
    result |-> LevelResult(d.target_text, d.transcribed_text, d.word_timestamps)] :
     d \in ScoredInputs}

\* the entry written to level_results[level] by a scoring step
ScoreLevel(target, transcribed, timestamps) ==
  (CHOOSE p \in LevelResultTable :
     p.data = [target_text |-> target, transcribed_text |-> transcribed,
               word_timestamps |-> timestamps]).result

Levels == 1..4

\* req.levels of a full evaluation: data for some of the levels
FullRequests == UNION {[D -> FullInputs] : D \in SUBSET Levels}

AudioPaths == {"", "a.wav"}

\* the requests of the single-level endpoints (DyslexiaRunRequest, DyslexiaLevelRequest)
LevelRequests ==
  {[kind |-> "run", audio_path |-> a, input |-> EmptyInput] : a \in AudioPaths}
  \cup {[kind |-> "level", audio_path |-> "", input |-> i] : i \in Inputs}

ReplyConfidences == {ConfAbsent, ConfNotNumber, 40, 59, 60, 80}

ReasonerJson ==
  [object : {TRUE}, suggest_retest : {"true", "false", "absent"},
   confidence : ReplyConfidences]
  \cup {[object |-> FALSE, suggest_retest |-> "absent", confidence |-> ConfAbsent]}

VerifierJson ==
  [object : {TRUE},
   final_result : {"NORMAL", "RISK_DYSLEXIA", "INCONCLUSIVE", "DYSLEXIA", "absent"},
   confidence : ReplyConfidences]
  \cup {[object |-> FALSE, final_result |-> "absent", confidence |-> ConfAbsent]}

\* the collaborator's reply: the request fails, or its text parses as JSON or not
Replies(json, none) ==
  {[kind |-> "request_failed", value |-> none], [kind |-> "not_json", value |-> none]}
  \cup {[kind |-> "json", value |-> v] : v \in json}

ReasonerReplies == Replies(ReasonerJson, ReasonerDefault)

VerifierReplies == Replies(VerifierJson, VerifierDefault)

(***************************************************************************)
(* Inputs of the scoring step taken alone                                  *)
(***************************************************************************)
\* longest text, in words, of the general scoring inputs
MaxScorerWords == 3

Red == <<"R", "e", "d">>
The == <<"T", "h", "e">>
quick == <<"q", "u", "i", "c", "k">>
brown == <<"b", "r", "o", "w", "n">>
fox == <<"f", "o", "x">>
forWord == <<"f", "o", "r">>
box == <<"b", "o", "x">>
kick == <<"k", "i", "c", "k">>
grain == <<"g", "r", "a", "i", "n">>
grand == <<"g", "r", "a", "n", "d">>
block == <<"b", "l", "o", "c", "k">>
yello == <<"y", "e", "l", "l", "o">>
yellowed == <<"y", "e", "l", "l", "o", "w", "e", "d">>

\* compare.py, the commented test run: its texts and its timestamps (in tenths
\* of a second), the second of which names another word than the transcript
FoxTarget == Join(<<The, quick, brown, fox>>)

FoxTranscribed == Join(<<The, forWord, brown, box>>)

FoxTimestamps ==
  << [word |-> The, start |-> 5, end |-> 8],
     [word |-> kick, start |-> 32, end |-> 37],
     [word |-> brown, start |-> 39, end |-> 42],
     [word |-> box, start |-> 45, end |-> 49] >>

FoxInput ==
  [target_text |-> FoxTarget, transcribed_text |-> FoxTranscribed,
   word_timestamps |-> FoxTimestamps]

\* words of the general inputs: a word, the same word capitalised, another word
ScorerVocabulary == {red, Red, blue}

ScorerWords == SeqsUpTo(ScorerVocabulary, MaxScorerWords)

\* one word read as another: close and distant pairs, on both sides of the
\* similarity threshold and of the length rule
WordPairs ==
  {<<a, b>> \in {red, Red, blue, blu, green, grain, grand, black, block,
                 yellow, yello, yellowed, fox, box, quick, forWord}
               \X {red, blue, blu, green, grain, grand, block, yello,
                   yellowed, box, forWord} : TRUE}

\* texts of blanks only, and a text with blanks around and between its words
BlankTexts == {<<" ">>, <<" ", " ">>}

PaddedText == <<" ">> \o red \o <<" ", " ">> \o blue \o <<" ">>

\* longest transcript, in words, of the inputs that carry timestamps
MaxTimedWords == 2

\* a timestamp list: position i names a word and the times 10 i .. 10 i + 5
TimestampLists ==
  {[i \in 1..Len(ws) |-> [word |-> ws[i], start |-> 10 * i, end |-> 10 * i + 5]] :
     ws \in SeqsUpTo(ScorerVocabulary, MaxTimedWords + 1)}

\* transcripts with timestamp lists that name their words, other words or the
\* same words in another case, and that are shorter or longer than they are
TimedInputs ==
  {[target_text |-> Join(t), transcribed_text |-> Join(w), word_timestamps |-> ts] :
     t \in {<<>>, <<blue>>, <<red, blue>>},
     w \in SeqsUpTo(ScorerVocabulary, MaxTimedWords),
     ts \in TimestampLists}

ScorerInputs ==
  {[target_text |-> Join(t), transcribed_text |-> Join(w), word_timestamps |-> <<>>] :
     t \in ScorerWords, w \in ScorerWords}
  \cup
  {[target_text |-> p[1], transcribed_text |-> p[2], word_timestamps |-> <<>>] :
     p \in WordPairs}
  \cup
  {[target_text |-> t, transcribed_text |-> w, word_timestamps |-> <<>>] :
     t \in BlankTexts \cup {PaddedText, <<>>},
     w \in BlankTexts \cup {PaddedText, <<>>}}
  \cup {FoxInput}
  \cup TimedInputs

(***************************************************************************)
(* State                                                                   *)
(***************************************************************************)
VARIABLES
  entry,            \* the entry point serving the session: "graph" (graph_builder),
                    \* "langgraph" (Langgraph/graph.py), "level", "full"
  pc,               \* the node about to run; "idle", "done" or "raised" between runs
  levels,           \* req.levels of the full evaluation
  loop_level,       \* the loop variable of the full evaluation
  current_level, target_text, transcribed_text, word_timestamps, audio_path,
  last_accuracy, level_scores, level_results, features,
  status, next_level, should_continue, final_result,
  scored,           \* the levels scored in this invocation, in order
  reasoner_calls,   \* the levels the error reasoner was invoked for in this invocation
  verifier_calls,   \* how often the verifier was invoked in this invocation
  response          \* what the invocation returned

input_vars == <<target_text, transcribed_text, word_timestamps, audio_path>>
result_vars == <<last_accuracy, level_scores, level_results>>
route_vars == <<status, next_level, should_continue>>
call_vars == <<scored, reasoner_calls, verifier_calls>>
full_vars == <<levels, loop_level>>

vars == <<entry, pc, levels, loop_level, current_level, target_text,
          transcribed_text, word_timestamps, audio_path, last_accuracy,
          level_scores, level_results, features, status, next_level,
          should_continue, final_result, scored, reasoner_calls, verifier_calls,
          response>>

NoResponse ==
  [returned |-> FALSE, status |-> "absent", next_level |-> NoLevel,
   should_continue |-> FALSE, final_result |-> "null", current_level |-> NoLevel,
   last_accuracy |-> 0, level_scores |-> EmptyDict]

\* DyslexiaState(): the field defaults of the schema
Init ==
  /\ entry \in {"graph", "langgraph", "level", "full"}
  /\ pc = "idle"
  /\ levels = EmptyDict
  /\ loop_level = 1
  /\ current_level = 1
  /\ target_text = <<>>
  /\ transcribed_text = <<>>
  /\ word_timestamps = <<>>
  /\ audio_path = ""
  /\ last_accuracy = 0
  /\ level_scores = EmptyDict
  /\ level_results = EmptyDict
  /\ features = EmptyDict
  /\ status = "IN_PROGRESS"
  /\ next_level = NoLevel
  /\ should_continue = FALSE
  /\ final_result = "null"
  /\ scored = <<>>
  /\ reasoner_calls = <<>>
  /\ verifier_calls = 0
  /\ response = NoResponse

\* the level the caller asks for: any level to start with, then the one the
\* last response names (its next_level; the level itself after content generation)
CallerLevels ==
  IF pc = "idle" THEN Levels
  ELSE IF pc # "done" THEN {}
  ELSE IF response.next_level # NoLevel THEN {response.next_level}
  ELSE IF entry = "level" /\ response.status = "IN_PROGRESS"
    THEN {response.current_level}
  ELSE {}


(***************************************************************************)
(* Langgraph/graph_builder.py, graph_nodes.py: the compiled graph          *)
(***************************************************************************)
\* the keys of features
ReasoningKey(level) ==
  CASE level = 1 -> "level_1_reasoning"
    [] level = 2 -> "level_2_reasoning"
    [] level = 3 -> "level_3_reasoning"
    [] OTHER -> "level_4_reasoning"

ErrorReasoningKey(level) ==
  CASE level = 1 -> "level_1_error_reasoning"
    [] level = 2 -> "level_2_error_reasoning"
    [] level = 3 -> "level_3_error_reasoning"
    [] OTHER -> "level_4_error_reasoning"

\* mutant: a RETEST is sent on to the verifier
route_condition_RetestVerifies(st) ==
  IF st = "PASS" THEN "ADVANCE"
  ELSE IF st \in {"RETEST", "COMPLETED"} THEN "VERIFY"
  ELSE "END"

\* route_condition, and the node its label is mapped to
route_condition(st) ==
  IF st = "PASS" THEN "ADVANCE"
  ELSE IF st = "RETEST" THEN "END"
  ELSE IF st = "COMPLETED" THEN "VERIFY"
  ELSE "END"

RouterEdge(label) ==
  CASE label = "ADVANCE" -> "advance"
    [] label = "VERIFY" -> "verify"
    [] OTHER -> "END"

\* Langgraph/graph.py: route_after_decision, and the node its label is mapped to
route_after_decision(st) ==
  IF st = "PASS" THEN "ADVANCE"
  ELSE IF st = "NEED_REASONING" THEN "REASON"
  ELSE IF st = "RETEST" THEN "END"
  ELSE IF st = "COMPLETED" THEN "VERIFY"
  ELSE "END"

DecideEdge(label) ==
  CASE label = "ADVANCE" -> "advance"
    [] label = "REASON" -> "reason"
    [] label = "VERIFY" -> "verify"
    [] OTHER -> "END"

\* the two compiled graphs share their nodes and differ in the edge out of the
\* decide node
GraphEntries == {"graph", "langgraph"}

EdgeAfterDecide(e, st) ==
  IF e = "graph" THEN RouterEdge(route_condition(st))
  ELSE DecideEdge(route_after_decision(st))

\* the routing fields a decide step writes
PassDecision(level) ==
  IF HasNextLevel(level)
    THEN [status |-> "PASS", next_level |-> level + 1, should_continue |-> TRUE]
    ELSE [status |-> "COMPLETED", next_level |-> NoLevel, should_continue |-> FALSE]

RetestDecision(level) ==
  [status |-> "RETEST", next_level |-> level, should_continue |-> TRUE]

CompletedDecision ==
  [status |-> "COMPLETED", next_level |-> NoLevel, should_continue |-> FALSE]

SetRoute(d) ==
  /\ status' = d.status
  /\ next_level' = d.next_level
  /\ should_continue' = d.should_continue

\* app.py run_graph_level: the state dict a request is turned into
RunGraphLevel ==
  /\ entry \in GraphEntries
  /\ \E level \in CallerLevels, input \in Inputs :
       /\ current_level' = level
       /\ target_text' = input.target_text
       /\ transcribed_text' = input.transcribed_text
       /\ word_timestamps' = input.word_timestamps
  /\ audio_path' = ""
  /\ last_accuracy' = 0
  /\ level_scores' = EmptyDict
  /\ level_results' = EmptyDict
  /\ features' = EmptyDict
  /\ status' = "absent"
  /\ next_level' = NoLevel
  /\ should_continue' = FALSE
  /\ final_result' = "null"
  /\ scored' = <<>>
  /\ reasoner_calls' = <<>>
  /\ verifier_calls' = 0
  /\ response' = NoResponse
  /\ pc' = "compare_score"
  /\ UNCHANGED <<entry, full_vars>>

\* graph_nodes.node_compare_and_score
GraphCompareScore ==
  /\ entry \in GraphEntries
  /\ pc = "compare_score"
  /\ LET r == ScoreLevel(target_text, transcribed_text, word_timestamps) IN
       /\ level_scores' = Put(level_scores, current_level, r.accuracy)
       /\ level_results' = Put(level_results, current_level, r)
  /\ scored' = Append(scored, current_level)
  /\ pc' = "router"
  /\ UNCHANGED <<entry, full_vars, current_level, input_vars, last_accuracy,
                 features, route_vars, final_result, reasoner_calls,
                 verifier_calls, response>>

\* graph_nodes.node_decide_route, then the conditional edge out of "router"
GraphDecideRoute ==
  /\ entry \in GraphEntries
  /\ pc = "router"
  /\ LET level == current_level
         acc == level_results[level].accuracy
     IN
       IF Passes(acc) THEN
         /\ SetRoute(PassDecision(level))
         /\ pc' = EdgeAfterDecide(entry, PassDecision(level).status)
         /\ UNCHANGED <<features, reasoner_calls>>
       ELSE IF RetestEligible(level) THEN
         \E has_key \in BOOLEAN, reply \in ReasonerReplies :
           LET out == reason_negative_errors_with_gemini(has_key, reply)
               verdict == out.value
           IN
             /\ reasoner_calls' = Append(reasoner_calls, level)
             /\ IF out.raised THEN
                  /\ pc' = "raised"
                  /\ UNCHANGED <<features, route_vars>>
                ELSE
                  /\ features' = Put(features, ReasoningKey(level), verdict)
                  /\ IF RetestTestRaises(verdict) THEN
                       /\ pc' = "raised"
                       /\ UNCHANGED route_vars
                     ELSE IF RetestWarranted(verdict) THEN
                       /\ SetRoute(RetestDecision(level))
                       /\ pc' = EdgeAfterDecide(entry, RetestDecision(level).status)
                     ELSE
                       /\ SetRoute(CompletedDecision)
                       /\ pc' = EdgeAfterDecide(entry, CompletedDecision.status)
       ELSE
         /\ SetRoute(CompletedDecision)
         /\ pc' = EdgeAfterDecide(entry, CompletedDecision.status)
         /\ UNCHANGED <<features, reasoner_calls>>
  /\ UNCHANGED <<entry, full_vars, current_level, input_vars, result_vars,
                 final_result, scored, verifier_calls, response>>

\* graph_nodes.node_advance_level, then the edge back to "compare_score"
GraphAdvanceLevel ==
  /\ entry \in GraphEntries
  /\ pc = "advance"
  /\ current_level' = IF next_level # NoLevel THEN next_level ELSE current_level
  /\ pc' = "compare_score"
  /\ UNCHANGED <<entry, full_vars, input_vars, result_vars, features, route_vars,
                 final_result, call_vars, response>>

\* float(verdict.get("confidence", 0.0)) < 0.6: the low-confidence safeguard
LowConfidence(conf) == ~ConfidenceHigh(conf)

\* verdict.get("final_result", "INCONCLUSIVE")
GetFinalResult(verdict) ==
  IF verdict.final_result = "absent" THEN "INCONCLUSIVE" ELSE verdict.final_result

\* graph_nodes.node_final_verifier, then the edge to END
GraphFinalVerifier ==
  /\ entry \in GraphEntries
  /\ pc = "verify"
  /\ verifier_calls' = verifier_calls + 1
  /\ \E has_key \in BOOLEAN, reply \in VerifierReplies :
       LET out == verify_with_gemini(has_key, reply)
           verdict == out.value
       IN
         IF out.raised \/ ~verdict.object \/ verdict.confidence = ConfNotNumber THEN
           /\ pc' = "raised"
           /\ UNCHANGED <<features, route_vars, final_result>>
         ELSE
           LET llm_result == GetFinalResult(verdict)
               llm_conf == GetConfidence(verdict)
           IN
             /\ features' = Put(Put(features, "llm_final_result", llm_result),
                                "llm_confidence", llm_conf)
             /\ final_result' = IF LowConfidence(llm_conf) THEN "INCONCLUSIVE"
                                ELSE llm_result
             /\ SetRoute(CompletedDecision)
             /\ pc' = "END"
  /\ UNCHANGED <<entry, full_vars, current_level, input_vars, result_vars,
                 scored, reasoner_calls, response>>

\* END: graph.invoke returns the state
GraphReturn ==
  /\ entry \in GraphEntries
  /\ pc = "END"
  /\ response' = [returned |-> TRUE, status |-> status, next_level |-> next_level,
                  should_continue |-> should_continue, final_result |-> final_result,
                  current_level |-> current_level, last_accuracy |-> last_accuracy,
                  level_scores |-> level_scores]
  /\ pc' = "done"
  /\ UNCHANGED <<entry, full_vars, current_level, input_vars, result_vars,
                 features, route_vars, final_result, call_vars>>


(***************************************************************************)
(* workflow.py, nodes.py: the procedural workflows                         *)
(***************************************************************************)
\* DyslexiaState(user_id=...): every field at its default
FreshState ==
  /\ audio_path' = ""
  /\ last_accuracy' = 0
  /\ level_scores' = EmptyDict
  /\ level_results' = EmptyDict
  /\ features' = EmptyDict
  /\ status' = "IN_PROGRESS"
  /\ next_level' = NoLevel
  /\ should_continue' = FALSE
  /\ final_result' = "null"
  /\ scored' = <<>>
  /\ reasoner_calls' = <<>>
  /\ verifier_calls' = 0
  /\ response' = NoResponse

\* payload.get("audio_path") or payload.get("transcribed_text"): the flow taken
FlowOf(req) ==
  IF req.audio_path # "" THEN "transcribe"
  ELSE IF req.kind = "level" /\ req.input.transcribed_text # <<>> THEN "compare_score"
  ELSE "generate"

\* run_dyslexia_workflow up to the choice of the flow: the fresh state,
\* node_load_input, and state.audio_path when the request carries one
RunDyslexiaWorkflow ==
  /\ entry = "level"
  /\ \E level \in CallerLevels, req \in LevelRequests :
       /\ FreshState
       /\ current_level' = level
       /\ target_text' = req.input.target_text
       /\ transcribed_text' = req.input.transcribed_text
       /\ word_timestamps' = req.input.word_timestamps
       /\ pc' = FlowOf(req)
  /\ UNCHANGED <<entry, full_vars>>

\* nodes.node_transcribe with state.audio_path set: the transcriber answers or fails
Transcribe ==
  /\ entry = "level"
  /\ pc = "transcribe"
  /\ audio_path' = "a.wav"
  /\ \/ \E t \in TranscriptionsHeard :
          /\ transcribed_text' = t.transcribed_text
          /\ word_timestamps' = t.word_timestamps
     \/ /\ transcribed_text' = <<>>
        /\ word_timestamps' = <<>>
  /\ pc' = "compare_score"
  /\ UNCHANGED <<entry, full_vars, current_level, target_text, result_vars,
                 features, route_vars, final_result, call_vars, response>>

\* nodes.node_generate_content: the text to read, from the generator of the level
GenerateContent ==
  /\ entry = "level"
  /\ pc = "generate"
  /\ target_text' \in (IF current_level = 3 THEN {RanText}
                       ELSE TargetTexts \ {<<>>})
  /\ status' = "IN_PROGRESS"
  /\ pc' = "return"
  /\ UNCHANGED <<entry, full_vars, current_level, transcribed_text,
                 word_timestamps, audio_path, result_vars, features, next_level,
                 should_continue, final_result, call_vars, response>>

\* nodes.node_compare_and_score on the given level and texts
NodesCompareAndScore(level, target, transcribed, timestamps) ==
  LET r == ScoreLevel(target, transcribed, timestamps) IN
    /\ last_accuracy' = r.accuracy
    /\ level_scores' = Put(level_scores, level, r.accuracy)
    /\ level_results' = Put(level_results, level, r)
    /\ scored' = Append(scored, level)

CompareAndScore ==
  /\ entry = "level"
  /\ pc = "compare_score"
  /\ NodesCompareAndScore(current_level, target_text, transcribed_text, word_timestamps)
  /\ pc' = "decide"
  /\ UNCHANGED <<entry, full_vars, current_level, input_vars, features, route_vars,
                 final_result, reasoner_calls, verifier_calls, response>>

\* the routing fields nodes.node_decide_next writes on a pass
NodesPassDecision(level) ==
  IF HasNextLevel(level)
    THEN [status |-> "IN_PROGRESS", next_level |-> level + 1, should_continue |-> TRUE]
    ELSE [status |-> "VERIFYING", next_level |-> NoLevel, should_continue |-> FALSE]

\* final_result as nodes.node_decide_next leaves it on a failed level
NodesFailedFinalResult == "RISK_DYSLEXIA"

\* nodes.node_decide_next
DecideNext ==
  /\ entry = "level"
  /\ pc = "decide"
  /\ LET level == current_level
         acc == last_accuracy
     IN
       IF ~Passes(acc) THEN
         IF RetestEligible(level) THEN
           \E has_key \in BOOLEAN, reply \in ReasonerReplies :
             LET out == reason_negative_errors_with_gemini(has_key, reply)
                 verdict == out.value
             IN
               /\ reasoner_calls' = Append(reasoner_calls, level)
               /\ IF out.raised THEN
                    /\ pc' = "raised"
                    /\ UNCHANGED <<features, route_vars, final_result>>
                  ELSE
                    /\ features' = Put(features, ErrorReasoningKey(level), verdict)
                    /\ IF RetestTestRaises(verdict) THEN
                         /\ pc' = "raised"
                         /\ UNCHANGED <<route_vars, final_result>>
                       ELSE IF RetestWarranted(verdict) THEN
                         /\ SetRoute(RetestDecision(level))
                         /\ final_result' = "null"
                         /\ pc' = "return"
                       ELSE
                         /\ SetRoute(CompletedDecision)
                         /\ final_result' = NodesFailedFinalResult
                         /\ pc' = "return"
         ELSE
           /\ SetRoute(CompletedDecision)
           /\ final_result' = NodesFailedFinalResult
           /\ pc' = "return"
           /\ UNCHANGED <<features, reasoner_calls>>
       ELSE
         /\ SetRoute(NodesPassDecision(level))
         /\ pc' = "return"
         /\ UNCHANGED <<features, final_result, reasoner_calls>>
  /\ UNCHANGED <<entry, full_vars, current_level, input_vars, result_vars,
                 scored, verifier_calls, response>>

\* DyslexiaRunResponse(...) of run_dyslexia_workflow: should_continue is not
\* passed and takes the default of the schema
Return ==
  /\ entry = "level"
  /\ pc = "return"
  /\ response' = [returned |-> TRUE, status |-> status, next_level |-> next_level,
                  should_continue |-> FALSE, final_result |-> final_result,
                  current_level |-> current_level, last_accuracy |-> last_accuracy,
                  level_scores |-> level_scores]
  /\ pc' = "done"
  /\ UNCHANGED <<entry, full_vars, current_level, input_vars, result_vars,
                 features, route_vars, final_result, call_vars>>

\* run_full_dyslexia_workflow: the fresh state, before the loop over the levels
RunFullDyslexiaWorkflow ==
  /\ entry = "full"
  /\ pc = "idle"
  /\ levels' \in FullRequests
  /\ loop_level' = 1
  /\ FreshState
  /\ pc' = "loop"
  /\ UNCHANGED <<entry, current_level, target_text, transcribed_text, word_timestamps>>

\* mutant: the loop is left at the first level scored below 40
FullLoop_StopsOnFail ==
  /\ entry = "full"
  /\ pc = "loop"
  /\ IF loop_level \in DOMAIN levels THEN
       LET level_data == levels[loop_level] IN
         /\ current_level' = loop_level
         /\ target_text' = level_data.target_text
         /\ transcribed_text' = level_data.transcribed_text
         /\ word_timestamps' = level_data.word_timestamps
         /\ NodesCompareAndScore(loop_level, level_data.target_text,
                                 level_data.transcribed_text,
                                 level_data.word_timestamps)
     ELSE
       UNCHANGED <<current_level, target_text, transcribed_text, word_timestamps,
                   result_vars, scored>>
  /\ loop_level' = loop_level + 1
  /\ pc' = IF loop_level = 4 \/ ~Passes(last_accuracy') THEN "verification" ELSE "loop"
  /\ UNCHANGED <<entry, levels, audio_path, features, route_vars, final_result,
                 reasoner_calls, verifier_calls, response>>

\* one iteration of the loop: a level without data is skipped, the others scored
FullLoop ==
  /\ entry = "full"
  /\ pc = "loop"
  /\ IF loop_level \in DOMAIN levels THEN
       LET level_data == levels[loop_level] IN
         /\ current_level' = loop_level
         /\ target_text' = level_data.target_text
         /\ transcribed_text' = level_data.transcribed_text
         /\ word_timestamps' = level_data.word_timestamps
         /\ NodesCompareAndScore(loop_level, level_data.target_text,
                                 level_data.transcribed_text,
                                 level_data.word_timestamps)
     ELSE
       UNCHANGED <<current_level, target_text, transcribed_text, word_timestamps,
                   result_vars, scored>>
  /\ loop_level' = loop_level + 1
  /\ pc' = IF loop_level = 4 THEN "verification" ELSE "loop"
  /\ UNCHANGED <<entry, levels, audio_path, features, route_vars, final_result,
                 reasoner_calls, verifier_calls, response>>

\* nodes.node_llm_verification
LlmVerification ==
  /\ entry = "full"
  /\ pc = "verification"
  /\ IF DOMAIN level_results = {} THEN
       /\ final_result' = "INCONCLUSIVE"
       /\ pc' = "return"
       /\ UNCHANGED <<features, status, verifier_calls>>
     ELSE
       /\ verifier_calls' = verifier_calls + 1
       /\ \E has_key \in BOOLEAN, reply \in VerifierReplies :
            LET out == verify_with_gemini(has_key, reply)
                verdict == out.value
            IN
              IF out.raised \/ ~verdict.object THEN
                /\ pc' = "raised"
                /\ UNCHANGED <<features, status, final_result>>
              ELSE
                /\ final_result' = GetFinalResult(verdict)
                /\ features' = Put(features, "llm_confidence", GetConfidence(verdict))
                /\ status' = "COMPLETED"
                /\ pc' = "return"
  /\ UNCHANGED <<entry, full_vars, current_level, input_vars, result_vars,
                 next_level, should_continue, scored, reasoner_calls, response>>

\* DyslexiaRunResponse(...) of run_full_dyslexia_workflow
FullReturn ==
  /\ entry = "full"
  /\ pc = "return"
  /\ response' = [returned |-> TRUE, status |-> status, next_level |-> NoLevel,
                  should_continue |-> FALSE, final_result |-> final_result,
                  current_level |-> 4, last_accuracy |-> last_accuracy,
                  level_scores |-> level_scores]
  /\ pc' = "done"
  /\ UNCHANGED <<entry, full_vars, current_level, input_vars, result_vars,
                 features, route_vars, final_result, call_vars>>

(***************************************************************************)
(* Specifications                                                          *)
(***************************************************************************)
Next ==
  \/ RunGraphLevel
  \/ GraphCompareScore
  \/ GraphDecideRoute
  \/ GraphAdvanceLevel
  \/ GraphFinalVerifier
  \/ GraphReturn
  \/ RunDyslexiaWorkflow
  \/ Transcribe
  \/ GenerateContent
  \/ CompareAndScore
  \/ DecideNext
  \/ Return
  \/ RunFullDyslexiaWorkflow
  \/ FullLoop
  \/ LlmVerification
  \/ FullReturn

Spec == Init /\ [][Next]_vars

\* every node runs to completion and the caller makes the call it is asked for
FairSpec == Spec /\ WF_vars(Next)


(***************************************************************************)
(* The scoring step taken alone: a level request is loaded and scored, by   *)
(* the graph's node_compare_and_score or by the one of nodes.py            *)
(***************************************************************************)
ScorerEntries == {"graph", "level"}

\* level: int = 1 of the request: the scoring does not look at the level
ScorerLevels == {1}

ScorerInit ==
  /\ Init
  /\ entry \in ScorerEntries

\* app.py run_graph_level / nodes.node_load_input: the request becomes the
\* state; every request starts from a state of its own
ScorerLoadInput ==
  /\ entry \in ScorerEntries
  /\ pc = "idle"
  /\ \E level \in ScorerLevels, input \in ScorerInputs :
       /\ current_level' = level
       /\ target_text' = input.target_text
       /\ transcribed_text' = input.transcribed_text
       /\ word_timestamps' = input.word_timestamps
  /\ last_accuracy' = 0
  /\ level_scores' = EmptyDict
  /\ level_results' = EmptyDict
  /\ scored' = <<>>
  /\ pc' = "compare_score"
  /\ UNCHANGED <<entry, full_vars, audio_path, features, route_vars, final_result,
                 reasoner_calls, verifier_calls, response>>

\* graph_nodes.node_compare_and_score: last_accuracy is not written
ScorerGraphCompareScore ==
  /\ entry = "graph"
  /\ pc = "compare_score"
  /\ LET r == LevelResult(target_text, transcribed_text, word_timestamps) IN
       /\ level_scores' = Put(level_scores, current_level, r.accuracy)
       /\ level_results' = Put(level_results, current_level, r)
  /\ scored' = Append(scored, current_level)
  /\ pc' = "done"
  /\ UNCHANGED <<entry, full_vars, current_level, input_vars, last_accuracy,
                 features, route_vars, final_result, reasoner_calls,
                 verifier_calls, response>>

\* nodes.node_compare_and_score
ScorerNodesCompareScore ==
  /\ entry = "level"
  /\ pc = "compare_score"
  /\ LET r == LevelResult(target_text, transcribed_text, word_timestamps) IN
       /\ last_accuracy' = r.accuracy
       /\ level_scores' = Put(level_scores, current_level, r.accuracy)
       /\ level_results' = Put(level_results, current_level, r)
  /\ scored' = Append(scored, current_level)
  /\ pc' = "done"
  /\ UNCHANGED <<entry, full_vars, current_level, input_vars, features,
                 route_vars, final_result, reasoner_calls, verifier_calls,
                 response>>

ScorerNext ==
  \/ ScorerLoadInput
  \/ ScorerGraphCompareScore
  \/ ScorerNodesCompareScore

ScorerSpec == ScorerInit /\ [][ScorerNext]_vars

(***************************************************************************)
(* Properties of the level progression state machine                       *)
(***************************************************************************)
\* the decide step of the current level has just run and has not raised
AfterDecide ==
  \/ /\ entry \in GraphEntries
     /\ pc \in {"advance", "verify", "reason"} \/ (pc = "END" /\ verifier_calls = 0)
  \/ /\ entry = "level"
     /\ pc = "return"
     /\ scored # <<>>

\* the accuracy scored for the current level
ScoredAccuracy == level_results[current_level].accuracy

\* the verdict of the error reasoner for the current level, as the decide step keeps it
VerdictKey ==
  IF entry \in GraphEntries THEN ReasoningKey(current_level)
  ELSE ErrorReasoningKey(current_level)

HasVerdict == VerdictKey \in DOMAIN features

Verdict == features[VerdictKey]

\* C1: after a decide step at level 1 or 2 with accuracy < 40, a verdict with
\* suggest_retest = true and confidence >= 0.6 gives status RETEST,
\* next_level = current_level and should_continue = true.
C1_RetestOnWarrantedVerdict ==
  (/\ AfterDecide
   /\ current_level \in {1, 2}
   /\ ScoredAccuracy < 4000
   /\ HasVerdict
   /\ Verdict.suggest_retest = "true"
   /\ Verdict.confidence >= 60)
  => (status = "RETEST" /\ next_level = current_level /\ should_continue)

\* C1 witness: a retest decided on a verdict at the threshold, at level 2
C1_Witness ==
  /\ AfterDecide
  /\ current_level = 2
  /\ ScoredAccuracy < 4000
  /\ HasVerdict
  /\ Verdict.suggest_retest = "true"
  /\ Verdict.confidence = 60
  /\ status = "RETEST"

\* C2: after a decide step with accuracy < 40, at level 3 or 4, or on a verdict
\* whose suggest_retest is not true or whose confidence is below 0.6, the state
\* has status COMPLETED, next_level null and should_continue false.
C2_NoRetestOtherwise ==
  (/\ AfterDecide
   /\ ScoredAccuracy < 4000
   /\ \/ current_level \in {3, 4}
      \/ /\ HasVerdict
         /\ \/ Verdict.suggest_retest # "true"
            \/ Verdict.confidence \in 0..59
            \/ Verdict.confidence = ConfAbsent)
  => (status = "COMPLETED" /\ next_level = NoLevel /\ ~should_continue)

\* C2 witness: level 1, suggest_retest true with confidence 0.4: COMPLETED
C2_Witness ==
  /\ AfterDecide
  /\ current_level = 1
  /\ ScoredAccuracy < 4000
  /\ HasVerdict
  /\ Verdict.suggest_retest = "true"
  /\ Verdict.confidence = 40
  /\ status = "COMPLETED"

\* C3: after a decide step at level 1, 2 or 3 with accuracy >= 40 (40 included),
\* the state has status PASS, next_level = current_level + 1 and
\* should_continue = true.
C3_PassAdvances ==
  (AfterDecide /\ current_level \in {1, 2, 3} /\ ScoredAccuracy >= 4000)
  => (status = "PASS" /\ next_level = current_level + 1 /\ should_continue)

\* C4: after a decide step at level 4 with accuracy >= 40, the state has status
\* COMPLETED, next_level null and should_continue false, and the final
\* verification is what runs next.
C4_LastLevelCompletes ==
  (AfterDecide /\ current_level = 4 /\ ScoredAccuracy >= 4000)
  => (/\ status = "COMPLETED"
      /\ next_level = NoLevel
      /\ ~should_continue
      /\ pc = "verify")

NoDuplicates(s) == \A i, j \in 1..Len(s) : s[i] = s[j] => i = j

\* C5: a decide step invokes the error reasoner exactly when the level scored
\* below 40 and is level 1 or 2, no other step invokes it, and no level is
\* reasoned about twice in one invocation.
C5_ReasonerInvokedIff ==
  [][/\ IF pc \in {"router", "decide"}
          THEN reasoner_calls' =
                 IF ScoredAccuracy < 4000 /\ current_level \in {1, 2}
                   THEN Append(reasoner_calls, current_level)
                   ELSE reasoner_calls
          ELSE \/ reasoner_calls' = reasoner_calls
               \/ pc \in {"idle", "done"} /\ reasoner_calls' = <<>>
     /\ NoDuplicates(reasoner_calls')
     /\ pc' # "reason"]_vars

\* C5 witness: the reasoner has been invoked once, for a failed level 1, and
\* the invocation has returned
C5_Witness ==
  /\ pc = "done"
  /\ reasoner_calls = <<1>>
  /\ level_scores[1] < 4000

\* the final verification step has just run and has not raised
AfterVerify ==
  \/ entry \in GraphEntries /\ pc = "END" /\ verifier_calls = 1
  \/ entry = "full" /\ pc = "return" /\ verifier_calls = 1

\* C6: after the final verification step, a verifier confidence below 0.6
\* leaves final_result = INCONCLUSIVE whatever final_result the verifier gave.
C6_LowConfidenceInconclusive ==
  (/\ AfterVerify
   /\ "llm_confidence" \in DOMAIN features
   /\ features["llm_confidence"] \in 1..59)
  => final_result = "INCONCLUSIVE"

\* C7: a decide step leaves final_result null.
C7_DecideLeavesFinalResultNull ==
  AfterDecide => final_result = "null"

\* C8: a full evaluation without level data ends with final_result
\* INCONCLUSIVE, no call of the verifier, and status COMPLETED.
C8_NoResultsInconclusive ==
  (entry = "full" /\ pc \in {"return", "done"} /\ DOMAIN level_results = {})
  => (/\ final_result = "INCONCLUSIVE"
      /\ verifier_calls = 0
      /\ status = "COMPLETED")

\* C9: a session whose caller makes every call it is asked for eventually is
\* COMPLETED with a final_result of NORMAL, RISK_DYSLEXIA or INCONCLUSIVE.
\* Stated for the sessions of the compiled graph, where every call is a scoring
\* call, in which no collaborator call raises and the verifier names one of
\* the three results.
FinalResults == {"NORMAL", "RISK_DYSLEXIA", "INCONCLUSIVE"}

C9_SessionCompletes ==
  (entry = "graph" /\ [](pc # "raised" /\ final_result \in FinalResults \cup {"null"}))
  => <>(status = "COMPLETED" /\ final_result \in FinalResults)

\* C10: once a decide step has yielded RETEST, the invocation only returns: it
\* scores nothing more, keeps current_level and does not invoke the verifier;
\* the next scoring is a new call of the caller, for the same level.
C10_RetestEndsInvocation ==
  [][/\ status' = "RETEST" => (pc' \in {"END", "return", "done"} /\ verifier_calls' = 0)
     /\ status = "RETEST" =>
          /\ current_level' = current_level
          /\ IF pc = "done"
               THEN scored' = <<>> /\ verifier_calls' = 0 /\ reasoner_calls' = <<>>
               ELSE /\ scored' = scored
                    /\ verifier_calls' = verifier_calls
                    /\ pc' \in {"END", "return", "done"}]_vars

\* C10 witness: a RETEST of level 1 has been returned by the compiled graph
C10_Witness ==
  /\ entry = "graph"
  /\ pc = "done"
  /\ status = "RETEST"
  /\ response.status = "RETEST"
  /\ current_level = 1
  /\ scored = <<1>>

\* the statuses of the state machine
Statuses == {"IN_PROGRESS", "PASS", "RETEST", "COMPLETED"}

\* C11: every status that is stored in the state, and every status that a
\* response carries, is one of IN_PROGRESS, PASS, RETEST, COMPLETED.  (The dict
\* of a graph request has no status key before its decide step: nothing is
\* stored there.)
C11_StatusIsOneOfFour ==
  /\ status # "absent" => status \in Statuses
  /\ response.returned => response.status \in Statuses

\* the scoring step of the current level has just run
AfterScore ==
  \/ pc \in {"router", "decide"}
  \/ entry = "full" /\ pc \in {"loop", "verification"} /\ scored # <<>>

\* C12: the keys of level_results and of level_scores are levels 1..4,
\* current_level stays in 1..4, and right after a scoring step current_level is
\* a key of level_results (and of level_scores).
C12_LevelKeys ==
  /\ DOMAIN level_results \subseteq Levels
  /\ DOMAIN level_scores \subseteq Levels
  /\ current_level \in Levels
  /\ AfterScore => /\ current_level \in DOMAIN level_results
                   /\ current_level \in DOMAIN level_scores
                   /\ current_level = scored[Len(scored)]

\* C12 witness: the graph has passed level 3, advanced, and scored level 4
C12_Witness ==
  /\ entry = "graph"
  /\ pc = "router"
  /\ current_level = 4
  /\ scored = <<3, 4>>
  /\ DOMAIN level_results = {3, 4}

(***************************************************************************)
(* Properties of the scoring step                                          *)
(***************************************************************************)
\* the result stored for the current level, once it is scored
Scored == current_level \in DOMAIN level_results

Result == level_results[current_level]

TargetWords == Split(Result.target_text)

SpokenWords == Split(Result.transcribed_text)

LowerWords(ws) == [k \in 1..Len(ws) |-> LowerWord(ws[k])]

\* the same word sequence on both sides, up to case
SameWords == LowerWords(TargetWords) = LowerWords(SpokenWords)

AllCorrect ==
  /\ Result.distance = 0
  /\ \A k \in 1..Len(Result.word_status) : Result.word_status[k].label = "correct"
  /\ Result.accuracy = 10000

\* C13 as stated: a word sequence of any length scored against itself (up to
\* case) gives distance 0, only correct labels and accuracy 100.
C13_IdenticalAnyLength ==
  (Scored /\ SameWords) => AllCorrect

\* C13 amended: a word sequence of at least one word scored against itself
\* (up to case) gives distance 0, only correct labels and accuracy 100.
C13_IdenticalIsPerfect ==
  (Scored /\ SameWords /\ TargetWords # <<>>) => AllCorrect

\* C13 witness: three words, two of them differing in case, scored perfect
C13_Witness ==
  /\ Scored
  /\ TargetWords = <<Red, blue, red>>
  /\ SpokenWords = <<red, blue, Red>>
  /\ Result.accuracy = 10000
  /\ Len(Result.word_status) = 3

\* C14: accuracy is within 0..100, and the distance is at least 0, at least
\* |n - m| and at most max(n, m) for n target words and m transcribed words.
C14_Bounds ==
  Scored =>
    LET n == Len(TargetWords)
        m == Len(SpokenWords)
    IN /\ Result.accuracy >= 0
       /\ Result.accuracy <= 10000
       /\ Result.distance >= 0
       /\ Result.distance >= Abs(n - m)
       /\ Result.distance <= Max2(n, m)

\* C14 witness: three target words, none of them said by a one-word transcript
C14_Witness ==
  /\ Scored
  /\ Len(TargetWords) = 3
  /\ Len(SpokenWords) = 1
  /\ Result.distance = 3
  /\ Result.accuracy = 0

\* the entries of word_status that pair a target word with a different spoken
\* word: the substitution steps
SubstitutionEntries ==
  {k \in 1..Len(Result.word_status) :
     LET w == Result.word_status[k] IN
       /\ w.target_word # NoWord
       /\ w.spoken_word # NoWord
       /\ LowerWord(w.target_word) # LowerWord(w.spoken_word)}

\* |len(a) - len(b)| < 3 and 1 - editdistance(a, b) / max(len(a), len(b)) >= 0.6,
\* on the lowercased words
CloseWords(a0, b0) ==
  LET a == LowerWord(a0)
      b == LowerWord(b0)
      max_len == Max2(Len(a), Len(b))
  IN /\ Abs(Len(a) - Len(b)) < 3
     /\ 10 * (max_len - LevenshteinDistance(a, b)) >= 6 * max_len

\* C15: a substitution step is labelled mispronunciation, with confidence 0.7,
\* exactly when the two words differ in length by less than 3 and their
\* similarity is at least 0.6 (0.6 included); otherwise it is labelled error,
\* with confidence 0.9.
C15_MispronunciationThreshold ==
  Scored =>
    \A k \in SubstitutionEntries :
      LET w == Result.word_status[k] IN
        IF CloseWords(w.target_word, w.spoken_word)
          THEN w.label = "mispronunciation" /\ w.confidence = 70
          ELSE w.label = "error" /\ w.confidence = 90

\* C15 witness: green read as grain, distance 2 over length 5, similarity
\* exactly 0.6: a mispronunciation
C15_Witness ==
  /\ Scored
  /\ TargetWords = <<green>>
  /\ SpokenWords = <<grain>>
  /\ LevenshteinDistance(green, grain) = 2
  /\ SubstitutionEntries = {1}
  /\ Result.word_status[1].label = "mispronunciation"

\* C16: "The quick brown fox" scored against "The for brown box" gives four
\* entries labelled correct, error (quick/for), correct, mispronunciation
\* (fox/box), distance 2 and accuracy 62.5.
C16_QuickBrownFox ==
  (/\ Scored
   /\ Result.target_text = FoxTarget
   /\ Result.transcribed_text = FoxTranscribed)
  => (/\ Len(Result.word_status) = 4
      /\ [k \in 1..4 |-> Result.word_status[k].label]
           = <<"correct", "error", "correct", "mispronunciation">>
      /\ [k \in 1..4 |-> Result.word_status[k].target_word]
           = <<The, quick, brown, fox>>
      /\ [k \in 1..4 |-> Result.word_status[k].spoken_word]
           = <<The, forWord, brown, box>>
      /\ Result.distance = 2
      /\ Result.accuracy = 6250)

\* C16 witness: the example has been scored, by the scoring node of nodes.py
C16_Witness ==
  /\ entry = "level"
  /\ pc = "done"
  /\ target_text = FoxTarget
  /\ transcribed_text = FoxTranscribed
  /\ word_timestamps = FoxTimestamps
  /\ Scored
  /\ last_accuracy = 6250

\* the accuracy stored for a level, in all the places that keep it
StoredAccuracyAgrees(L) ==
  /\ L \in DOMAIN level_scores
  /\ level_scores[L] = level_results[L].accuracy
  /\ (entry = "level" /\ L = current_level) => last_accuracy = level_results[L].accuracy

\* C17 as stated: the accuracy stored for a level is exactly
\* 100 x (correct + 0.5 x mispronunciation) / total over the stored word_status,
\* and 0 when word_status is empty.
C17_AccuracyExact ==
  \A L \in DOMAIN level_results :
    LET r == level_results[L]
        total == Len(r.word_status)
    IN /\ StoredAccuracyAgrees(L)
       /\ IF total = 0 THEN r.accuracy = 0
          ELSE r.accuracy * total = 5000 * HalfPoints(r.word_status)

\* C17 amended: the accuracy stored for a level is
\* 100 x (correct + 0.5 x mispronunciation) / total over the stored word_status
\* rounded to two decimals, and 0 when word_status is empty.
C17_AccuracyRounded ==
  \A L \in DOMAIN level_results :
    LET r == level_results[L]
        total == Len(r.word_status)
    IN /\ StoredAccuracyAgrees(L)
       /\ IF total = 0 THEN r.accuracy = 0
          ELSE 2 * Abs(r.accuracy * total - 5000 * HalfPoints(r.word_status)) <= total

\* C17 witness: two words of three read correctly, stored as 66.67
C17_Witness ==
  /\ Scored
  /\ Len(Result.word_status) = 3
  /\ CountLabel(Result.word_status, "correct") = 2
  /\ CountLabel(Result.word_status, "mispronunciation") = 0
  /\ level_scores[current_level] = 6667

\* a deletion step: a target word with nothing spoken for it
DeletionEntry(w) ==
  /\ w.target_word # NoWord
  /\ w.spoken_word = NoWord
  /\ w.reason = "deletion detected"

\* an insertion step: a spoken word with no target word for it
InsertionEntry(w) ==
  /\ w.target_word = NoWord
  /\ w.spoken_word # NoWord
  /\ w.reason = "insertion detected"

\* C18 as stated: with an empty (or blank) target or transcript the scoring
\* gives accuracy 0 and only deletion steps labelled error; an empty transcript
\* against n target words gives n steps and distance n.
C18_EmptyAllDeletions ==
  (Scored /\ (TargetWords = <<>> \/ SpokenWords = <<>>))
  => (/\ Result.accuracy = 0
      /\ \A k \in 1..Len(Result.word_status) :
           /\ Result.word_status[k].label = "error"
           /\ DeletionEntry(Result.word_status[k])
      /\ SpokenWords = <<>> =>
           /\ Len(Result.word_status) = Len(TargetWords)
           /\ Result.distance = Len(TargetWords))

\* C18 amended: with an empty (or blank) target or transcript the scoring gives
\* accuracy 0 and only steps labelled error: deletions, one per target word and
\* distance n, when the transcript is empty; insertions, one per spoken word
\* and distance m, when the target is empty.
C18_EmptyAllErrors ==
  (Scored /\ (TargetWords = <<>> \/ SpokenWords = <<>>))
  => (/\ Result.accuracy = 0
      /\ \A k \in 1..Len(Result.word_status) :
           /\ Result.word_status[k].label = "error"
           /\ IF SpokenWords = <<>> THEN DeletionEntry(Result.word_status[k])
              ELSE InsertionEntry(Result.word_status[k])
      /\ SpokenWords = <<>> =>
           /\ Len(Result.word_status) = Len(TargetWords)
           /\ Result.distance = Len(TargetWords)
      /\ TargetWords = <<>> =>
           /\ Len(Result.word_status) = Len(SpokenWords)
           /\ Result.distance = Len(SpokenWords))

\* C18 witness: a transcript of blanks against a target of two words
C18_Witness ==
  /\ Scored
  /\ Result.transcribed_text = <<" ", " ">>
  /\ Len(TargetWords) = 2
  /\ Len(Result.word_status) = 2
  /\ DeletionEntry(Result.word_status[1])
  /\ Result.distance = 2

(***************************************************************************)
(* Properties of the collaborators' failures                               *)
(***************************************************************************)
\* the core holds an empty transcript and no timestamps for a non-empty target
EmptyTranscriptHeld ==
  /\ entry = "level"
  /\ target_text # <<>>
  /\ transcribed_text = <<>>
  /\ word_timestamps = <<>>

\* C19: when the single-level workflow holds an empty transcript and no
\* timestamps for a non-empty target, whether the request carried them or the
\* transcription failed, its next step scores the level with accuracy 0, and
\* the decide step that follows returns RETEST or COMPLETED without raising.
C19_EmptyTranscriptIsScored ==
  [][EmptyTranscriptHeld =>
       /\ pc \in {"generate", "compare_score"} =>
            /\ pc' = "decide"
            /\ scored' = <<current_level>>
            /\ level_scores' = Put(EmptyDict, current_level, 0)
       /\ pc = "decide" =>
            /\ pc' = "return"
            /\ status' \in {"RETEST", "COMPLETED"}]_vars

\* C20: a decide step that invokes the error reasoner never raises, and a
\* reply that is no JSON object, or whose confidence is no number, is taken as
\* the neutral verdict: the decision is COMPLETED.
C20_ReasonerNeverRaises ==
  /\ (reasoner_calls # <<>> /\ verifier_calls = 0) => pc # "raised"
  /\ (/\ AfterDecide
      /\ HasVerdict
      /\ ~Verdict.object \/ Verdict.confidence = ConfNotNumber)
     => status = "COMPLETED"

\* C21: the final verification never raises; it ends with status COMPLETED
\* and a final_result of NORMAL, RISK_DYSLEXIA or INCONCLUSIVE, and a reply
\* whose final_result is none of the three is taken as INCONCLUSIVE with
\* confidence 0.0.
C21_VerifierNeverRaises ==
  /\ verifier_calls > 0 => pc # "raised"
  /\ AfterVerify =>
       /\ status = "COMPLETED"
       /\ final_result \in FinalResults
       /\ ("llm_final_result" \in DOMAIN features
              /\ features["llm_final_result"] \notin FinalResults)
            => (final_result = "INCONCLUSIVE" /\ features["llm_confidence"] = 0)

(***************************************************************************)
(* Properties of the alignment                                             *)
(***************************************************************************)
HasSpokenWord(w) == w.spoken_word # NoWord

HasTargetWord(w) == w.target_word # NoWord

\* the entries of word_status that carry a spoken word, in order
SpokenEntries == SelectSeq(Result.word_status, HasSpokenWord)

\* the entries of word_status that carry a target word, in order
TargetEntries == SelectSeq(Result.word_status, HasTargetWord)

\* C22: the entry of the j-th transcribed word has the start and end of
\* timestamps[j] exactly when timestamps[j] exists and names that very token
\* (case included), and null start and end otherwise; a deletion entry has
\* null start and end; a short or mismatching list is no failure.
C22_TimestampsByPosition ==
  Scored =>
    /\ Len(SpokenEntries) = Len(SpokenWords)
    /\ \A j \in 1..Len(SpokenEntries) :
         LET e == SpokenEntries[j] IN
           IF j <= Len(word_timestamps) /\ word_timestamps[j].word = SpokenWords[j]
             THEN e.start = word_timestamps[j].start /\ e.end = word_timestamps[j].end
             ELSE e.start = NoTime /\ e.end = NoTime
    /\ \A k \in 1..Len(Result.word_status) :
         ~HasSpokenWord(Result.word_status[k]) =>
           (Result.word_status[k].start = NoTime /\ Result.word_status[k].end = NoTime)

\* C22 witness: "red blue" with timestamps for "Red" and "blue": the first
\* entry has no times, the second has those of position 2
C22_Witness ==
  /\ Scored
  /\ SpokenWords = <<red, blue>>
  /\ Len(word_timestamps) = 2
  /\ word_timestamps[1].word = Red
  /\ word_timestamps[2].word = blue
  /\ Len(SpokenEntries) = 2
  /\ SpokenEntries[1].start = NoTime
  /\ SpokenEntries[2].start = 20
  /\ SpokenEntries[2].end = 25

(***************************************************************************)
(* Properties of the invocations                                           *)
(***************************************************************************)
\* C23: the response of run_dyslexia_workflow carries the status, next_level
\* and should_continue the state has after the decide step; should_continue is
\* true in the response whenever its next_level is not null.
C23_ResponseCarriesDecision ==
  (entry = "level" /\ response.returned)
  => (/\ response.status = status
      /\ response.next_level = next_level
      /\ response.should_continue = should_continue
      /\ response.next_level # NoLevel => response.should_continue)

\* C24: a scoring step for level L puts the new attempt's result under L in
\* level_results and level_scores, whatever was there, and leaves the other
\* levels' entries as they are; the other steps of an invocation change
\* neither dict, and no step of an invocation removes a key.
C24_ScoringOverwritesOneLevel ==
  [][pc \notin {"idle", "done"} =>
       IF scored' # scored
         THEN LET L == scored'[Len(scored')] IN
                /\ scored' = Append(scored, L)
                /\ L \in DOMAIN level_results'
                /\ level_results'[L].target_text = target_text'
                /\ level_results'[L].transcribed_text = transcribed_text'
                /\ DOMAIN level_results' = DOMAIN level_results \cup {L}
                /\ DOMAIN level_scores' = DOMAIN level_scores \cup {L}
                /\ level_scores'[L] = level_results'[L].accuracy
                /\ \A k \in DOMAIN level_results \ {L} :
                     level_results'[k] = level_results[k]
                /\ \A k \in DOMAIN level_scores \ {L} :
                     level_scores'[k] = level_scores[k]
         ELSE /\ level_results' = level_results
              /\ level_scores' = level_scores]_vars

\* C24 witness: the graph has scored level 4 after levels 2 and 3, whose
\* entries are still there
C24_Witness ==
  /\ entry = "graph"
  /\ pc = "router"
  /\ scored = <<2, 3, 4>>
  /\ DOMAIN level_results = {2, 3, 4}
  /\ DOMAIN level_scores = {2, 3, 4}

\* the Levenshtein distance of two sequences, by its definition: the cheapest
\* way of turning a into b by unit-cost substitutions, deletions, insertions
RECURSIVE EditDistance(_, _)
EditDistance(a, b) ==
  IF a = <<>> THEN Len(b)
  ELSE IF b = <<>> THEN Len(a)
  ELSE Min2(EditDistance(Tail(a), Tail(b)) + (IF a[1] = b[1] THEN 0 ELSE 1),
            Min2(EditDistance(Tail(a), b) + 1, EditDistance(a, Tail(b)) + 1))

\* C25: the distance of a scored level is the Levenshtein distance of the
\* target and transcribed word sequences, words compared without case.
C25_DistanceIsLevenshtein ==
  Scored => Result.distance = EditDistance(LowerWords(TargetWords), LowerWords(SpokenWords))

\* C25 witness: "red blue red" against "blue Red": one deletion
C25_Witness ==
  /\ Scored
  /\ TargetWords = <<red, blue, red>>
  /\ SpokenWords = <<blue, Red>>
  /\ Result.distance = 1

\* the distance of the first i target words and the first j spoken words
PrefixDistance(a, b, i, j) ==
  EditDistance(LowerWords(SubSeq(a, 1, i)), LowerWords(SubSeq(b, 1, j)))

\* the steps, left to right, that lead to cell (i, j) when every cell is
\* reached by the diagonal if that is cheapest, else by a deletion if that
\* is, else by an insertion
RECURSIVE PreferredSteps(_, _, _, _)
PreferredSteps(a, b, i, j) ==
  IF i = 0 /\ j = 0 THEN <<>>
  ELSE
    LET diagonal == Append(PreferredSteps(a, b, i - 1, j - 1),
                           [target_word |-> a[i], spoken_word |-> b[j]])
        deletion == Append(PreferredSteps(a, b, i - 1, j),
                           [target_word |-> a[i], spoken_word |-> NoWord])
        insertion == Append(PreferredSteps(a, b, i, j - 1),
                            [target_word |-> NoWord, spoken_word |-> b[j]])
    IN IF j = 0 THEN deletion
       ELSE IF i = 0 THEN insertion
       ELSE LET best == PrefixDistance(a, b, i, j)
                cost == IF LowerWord(a[i]) = LowerWord(b[j]) THEN 0 ELSE 1
            IN IF PrefixDistance(a, b, i - 1, j - 1) + cost = best THEN diagonal
               ELSE IF PrefixDistance(a, b, i - 1, j) + 1 = best THEN deletion
               ELSE insertion

\* the word pairs of word_status, in order
StepPairs ==
  [k \in 1..Len(Result.word_status) |->
     [target_word |-> Result.word_status[k].target_word,
      spoken_word |-> Result.word_status[k].spoken_word]]

\* C26: the steps of word_status are, left to right, the path from (0, 0) to
\* (n, m) on which every cell is reached by the diagonal operation when it
\* attains the minimum, else by the deletion when it does, else by the
\* insertion.
C26_TieBreakOrder ==
  Scored => StepPairs = PreferredSteps(TargetWords, SpokenWords,
                                       Len(TargetWords), Len(SpokenWords))

\* C26 witness: "red blue red" against "blue red blue", where deletion and
\* insertion tie at the last cell: the path ends with the deletion
C26_Witness ==
  /\ Scored
  /\ TargetWords = <<red, blue, red>>
  /\ SpokenWords = <<blue, red, blue>>
  /\ Len(StepPairs) = 4
  /\ StepPairs[1] = [target_word |-> NoWord, spoken_word |-> blue]
  /\ StepPairs[4] = [target_word |-> red, spoken_word |-> NoWord]

\* C27: word_status is an alignment of the two word sequences: its target
\* words, in order, are the target words; its spoken words, in order, are the
\* transcribed words; no entry lacks both; and the entries not labelled
\* correct, which are the negative errors, are as many as the distance.
C27_ValidAlignment ==
  Scored =>
    /\ [k \in 1..Len(TargetEntries) |-> TargetEntries[k].target_word] = TargetWords
    /\ [k \in 1..Len(SpokenEntries) |-> SpokenEntries[k].spoken_word] = SpokenWords
    /\ \A k \in 1..Len(Result.word_status) :
         HasTargetWord(Result.word_status[k]) \/ HasSpokenWord(Result.word_status[k])
    /\ Len(Result.word_status) - CountLabel(Result.word_status, "correct")
         = Result.distance
    /\ Len(Result.negative_errors) = Result.distance

\* C27 witness: "The quick brown fox" against "The for brown box": four
\* entries, two of them negative errors, one of these a mispronunciation
C27_Witness ==
  /\ Scored
  /\ TargetWords = <<The, quick, brown, fox>>
  /\ SpokenWords = <<The, forWord, brown, box>>
  /\ Len(Result.word_status) = 4
  /\ Result.distance = 2
  /\ Len(Result.negative_errors) = 2
  /\ CountLabel(Result.word_status, "mispronunciation") = 1

\* C28: an invocation of the compiled graph started at level L reaches END,
\* whatever the collaborators do: it never ends in an exception, it scores at
\* most 5 - L times, it invokes the verifier at most once, and nothing runs
\* after the verify step but the return.
C28_GraphReachesEnd ==
  (entry = "graph" /\ pc \notin {"idle"})
  => (/\ pc # "raised"
      /\ scored # <<>> => Len(scored) <= 5 - scored[1]
      /\ verifier_calls <= 1
      /\ verifier_calls = 1 => pc \in {"END", "done"})

\* C29: a graph invocation, which carries the target and the transcript of
\* one level L, records no score and no result for a level above L.
C29_AdvanceScoresNewInput ==
  (entry \in GraphEntries /\ scored # <<>>)
  => (/\ DOMAIN level_results \subseteq 1..scored[1]
      /\ DOMAIN level_scores \subseteq 1..scored[1])

\* the levels the full evaluation has data for and has gone past
GonePast(level) ==
  /\ level \in DOMAIN levels
  /\ pc = "loop" => level < loop_level

\* C30: the full evaluation scores the levels it has data for, all of them, in
\* ascending order, whatever their accuracies, and no other level; it never
\* invokes the error reasoner and never yields RETEST; once the loop is over
\* it verifies once over the results, if there are any.
C30_FullScoresEveryLevel ==
  (entry = "full" /\ pc # "idle")
  => (/\ scored = SelectSeq(<<1, 2, 3, 4>>, GonePast)
      /\ DOMAIN level_results = {scored[k] : k \in 1..Len(scored)}
      /\ DOMAIN level_scores = DOMAIN level_results
      /\ reasoner_calls = <<>>
      /\ status # "RETEST"
      /\ response.status # "RETEST"
      /\ pc = "loop" => verifier_calls = 0
      /\ pc \in {"return", "done", "raised"} =>
           verifier_calls = (IF DOMAIN levels = {} THEN 0 ELSE 1))

\* C30 witness: data for levels 1 and 3, level 1 scored below 40: both scored,
\* verified once, returned
C30_Witness ==
  /\ entry = "full"
  /\ pc = "done"
  /\ DOMAIN levels = {1, 3}
  /\ scored = <<1, 3>>
  /\ level_scores[1] < 4000
  /\ verifier_calls = 1
  /\ reasoner_calls = <<>>

=============================================================================
